---------------------------- MODULE Spec2Model ----------------------------
(***************************************************************************)
(* A model of src/app.js, the EVE ore/ice harvesting rate calculator.      *)
(*                                                                         *)
(* Numbers.  JavaScript numbers are modelled by integers on fixed grids,   *)
(* on which the arithmetic of the code is exact:                           *)
(*   - seconds and minutes in tenths (cycleTimeSeconds 92.2 is 922),       *)
(*   - volumes in tenths of a cubic metre,                                 *)
(*   - percentages in hundredths of a percent (100% is 10000),             *)
(*   - prices in whole ISK, money totals in hundredths of an ISK,          *)
(*   - a fraction that is not on a grid as a reduced pair [num, den].      *)
(* null / undefined values are the record Unknown, a known number v is     *)
(* Known(v).                                                               *)
(***************************************************************************)
EXTENDS Integers, Sequences, FiniteSets, TLC

VARIABLES
  world,            \* the data the external services hold (types, prices)
  form,             \* the calculator form as the last submit found it
  reprocessYieldPct,\* the form field #reprocessYieldPct (hundredths of %)
  reprocessTaxPct,  \* window.__reprocessTaxPct (whole percent)
  adv,              \* the form fields of the advanced yield panel
  effLocal,         \* the local eff of the last applyBtn click
  compareState,     \* window.__compareState
  status,           \* the #status element: [msg, kind]
  summary,          \* the #summary element
  rawTable,         \* the body of #rawTable
  reprocessTable,   \* the body of #reprocessTable and #reprocessTotalCell
  compareBox,       \* the #compareBox element, with what its click
                    \* handlers close over
  passes,           \* the onCalculate invocations in flight
  started,          \* the number of onCalculate invocations so far
  lastStart,        \* what the most recent invocation has done so far
  renderedBy,       \* the invocation that last wrote the result panels
  typeCache,        \* the type IDs whose type data fetchJson has cached
  calc,             \* inputs and results of the pure calculation functions
  now,              \* Date.now(), in units of 150 s
  memCache,         \* the Map memCache: url -> record
  localStorage,     \* the eveharvestcache:<url> items of localStorage
  fetches,          \* the fetchJson calls waiting for the network
  fetchCalls,       \* the number of fetchJson calls so far
  returned          \* how the fetchJson call that ended last has ended

vars == <<world, form, reprocessYieldPct, reprocessTaxPct, adv, effLocal,
          compareState, status, summary, rawTable,
          reprocessTable, compareBox, passes, started, lastStart,
          renderedBy, typeCache, calc,
          now, memCache, localStorage, fetches, fetchCalls, returned>>

cacheVars == <<now, memCache, localStorage, fetches, fetchCalls, returned>>

pageVars == <<world, form, reprocessYieldPct, reprocessTaxPct, adv, effLocal,
              compareState, status, summary, rawTable,
              reprocessTable, compareBox, passes, started, lastStart,
              renderedBy, typeCache>>

appVars == <<pageVars, cacheVars>>

-----------------------------------------------------------------------------
(* Arithmetic helpers                                                      *)

Unknown == [known |-> FALSE, val |-> 0]
Known(v) == [known |-> TRUE, val |-> v]

\* x ?? 0
OrZero(x) == IF x.known THEN x.val ELSE 0

Max2(a, b) == IF a >= b THEN a ELSE b
Min2(a, b) == IF a <= b THEN a ELSE b
Abs(a) == IF a < 0 THEN -a ELSE a

\* Math.floor(n / d) for d # 0
FloorDiv(n, d) == IF d > 0 THEN n \div d ELSE (-n) \div (-d)

RECURSIVE Gcd(_, _)
Gcd(a, b) == IF b = 0 THEN a ELSE Gcd(b, a % b)

\* the fraction n / d (d > 0) in lowest terms
Reduce(n, d) ==
  LET g == Gcd(Abs(n), d)
  IN  [num |-> n \div g, den |-> d \div g]

\* the 1e-9 that the code adds before flooring is 1 / EpsInv
EpsInv == 1000000000

\* Math.floor(n / d + 1e-9) for d > 0: the quotient, plus one when the
\* remainder is within 1e-9 of a whole: (d - r) / d <= 1 / EpsInv
FloorEps(n, d) ==
  LET q == n \div d
      r == n % d
  IN  IF (d - r) <= d \div EpsInv THEN q + 1 ELSE q

\* function clamp(n, lo, hi)
clamp(n, lo, hi) == Min2(hi, Max2(lo, n))

\* Array.prototype.sort with comparator cmp: a stable sort; the element at i
\* goes behind every element that compares smaller and every earlier equal
SortBy(s, cmp(_, _)) ==
  LET n == Len(s)
      rank(i) == Cardinality({j \in 1..n : cmp(s[j], s[i]) < 0})
                 + Cardinality({j \in 1..(i - 1) : cmp(s[j], s[i]) = 0}) + 1
  IN  [k \in 1..n |-> s[CHOOSE i \in 1..n : rank(i) = k]]

\* Array.prototype.filter
RECURSIVE FilterSeq(_, _)
FilterSeq(s, keep) ==
  IF s = <<>> THEN <<>>
  ELSE IF s[1] \in keep THEN <<s[1]>> \o FilterSeq(Tail(s), keep)
  ELSE FilterSeq(Tail(s), keep)

Range(s) == {s[i] : i \in 1..Len(s)}

-----------------------------------------------------------------------------
(* Program constants on the model's grids                                  *)

FullPct == 10000     \* 100 percent, in hundredths of a percent
OneM3 == 10          \* the 1 of (td.volume || 1), in tenths of a cubic metre
HourSeconds == 36000 \* the 3600 seconds of an hour, in tenths of a second
NameCap == 12        \* names.slice(0, 12)
MaxSkill == 5        \* Math.min(5, ...) of the skill levels

-----------------------------------------------------------------------------
(* Calculation (src/app.js 298-334)                                        *)

calcCyclesCeil(durationMinutes, cycleTimeSeconds) ==
  LET totalSeconds == Max2(0, durationMinutes * 60)
      cycles == IF cycleTimeSeconds > 0
                THEN (totalSeconds + cycleTimeSeconds - 1) \div cycleTimeSeconds
                ELSE 0
      usedSeconds == cycles * cycleTimeSeconds
  IN  [totalSeconds |-> totalSeconds, cycles |-> cycles,
       usedSeconds |-> usedSeconds,
       leftoverSeconds |-> totalSeconds - usedSeconds]

calcCycles(durationMinutes, cycleTimeSeconds) ==
  LET totalSeconds == Max2(0, durationMinutes * 60)
      cycles == IF cycleTimeSeconds > 0
                THEN FloorDiv(totalSeconds, cycleTimeSeconds)
                ELSE 0
      usedSeconds == cycles * cycleTimeSeconds
  IN  [totalSeconds |-> totalSeconds, cycles |-> cycles,
       usedSeconds |-> usedSeconds,
       leftoverSeconds |-> totalSeconds - usedSeconds]

calcUnitsMined(volumeM3, unitVolumeM3) ==
  IF ~(unitVolumeM3 > 0) THEN 0
  ELSE FloorEps(volumeM3, unitVolumeM3)

\* the comparator of computeReprocessOutputs' sort:
\* (b.qty - a.qty) || (a.typeId - b.typeId)
cmpQtyDescIdAsc(a, b) ==
  IF b.qty - a.qty # 0 THEN b.qty - a.qty ELSE a.typeId - b.typeId

\* typeMaterials is the sequence of the object's values in enumeration order,
\* each [material_type_id, quantity]; yieldPct in hundredths of a percent
computeReprocessOutputs(units, portionSize, typeMaterials, yieldPct) ==
  LET eff == Reduce(clamp(yieldPct, 0, FullPct), FullPct)
      ps == Max2(1, portionSize)
      \* batches = units / ps is not floored
      valid == {rec \in Range(typeMaterials) :
                  rec.material_type_id > 0 /\ rec.quantity > 0}
      out(rec) == [typeId |-> rec.material_type_id,
                   qty |-> FloorEps(units * rec.quantity * eff.num,
                                    ps * eff.den),
                   qtyPerPortion |-> rec.quantity]
      kept == FilterSeq(typeMaterials, valid)
      outputs == [i \in 1..Len(kept) |-> out(kept[i])]
  IN  SortBy(outputs, cmpQtyDescIdAsc)

-----------------------------------------------------------------------------
(* Advanced refining math (src/app.js 917-949)                             *)

\* the fraction x times n / d (d > 0), in lowest terms
RatMul(x, n, d) ==
  LET f == Reduce(n, d)
      g1 == Gcd(Abs(x.num), f.den)
      g2 == Gcd(Abs(f.num), x.den)
  IN  [num |-> (x.num \div g1) * (f.num \div g2),
       den |-> (x.den \div g2) * (f.den \div g1)]

\* floor(n * 10^k / d) and its remainder, by long division (0 <= n, 0 < d)
RECURSIVE ScaleDiv(_, _, _)
ScaleDiv(n, d, k) ==
  IF k = 0 THEN [q |-> n \div d, r |-> n % d]
  ELSE LET p == ScaleDiv(n, d, k - 1)
       IN  [q |-> p.q * 10 + (p.r * 10) \div d, r |-> (p.r * 10) % d]

\* fmtNum(eff * 100, 2) read back as a number: the fraction eff >= 0 as a
\* percentage rounded half up to two decimals, in hundredths of a percent
fmtPct2(eff) ==
  LET p == ScaleDiv(eff.num, eff.den, 4)
  IN  IF 2 * p.r >= eff.den THEN p.q + 1 ELSE p.q

\* Math.max(0, Math.min(5, Math.floor(Number(level))))
skillLevel(raw) == Max2(0, Min2(MaxSkill, raw))

baseYieldAnySec(basePct, rigPts, secPct) ==
  LET by == Reduce(basePct + rigPts, 100)
  IN  IF secPct > 0 THEN RatMul(by, 100 + secPct, 100) ELSE by

\* let by = (basePct + rigPts) / 100;
\* if (rigPts > 0 && secPct > 0) by *= (1 + (secPct / 100));
baseYield(basePct, rigPts, secPct) ==
  LET by == Reduce(basePct + rigPts, 100)
  IN  IF rigPts > 0 /\ secPct > 0 THEN RatMul(by, 100 + secPct, 100) ELSE by

\* an effective yield that is left as the product gives it
clampUnitOpen(eff) == eff

\* Math.max(0, Math.min(1, eff)) of a fraction
clampUnit(eff) ==
  IF eff.num < 0 THEN [num |-> 0, den |-> 1]
  ELSE IF eff.num > eff.den THEN [num |-> 1, den |-> 1]
  ELSE eff

\* the eff of the applyBtn click handler, from the raw field values a
effectiveYield(a) ==
  LET R == skillLevel(a.skillR)
      RE == skillLevel(a.skillRE)
      OP == skillLevel(a.skillOP)
      implantPct == Max2(0, a.implantPct)
      by == baseYield(a.basePct, a.rigPts, a.secPct)
      e1 == RatMul(by, 100 + 3 * R, 100)
      e2 == RatMul(e1, 100 + 2 * RE, 100)
      e3 == RatMul(e2, 100 + 2 * OP, 100)
      e4 == RatMul(e3, 100 + implantPct, 100)
  IN  clampUnit(e4)

-----------------------------------------------------------------------------
(* The external services' data                                             *)

OreIds == {1, 2}        \* the type IDs that names resolve to
OutIds == {3, 4}        \* the type IDs of reprocessing outputs

\* the inventory type names ESI /universe/ids knows; any other name is unknown
NameIds == ("A" :> 1) @@ ("B" :> 2)

Mat(id, q) == [material_type_id |-> id, quantity |-> q]

\* responses of ref-data.everef.net/types/{id}, as getTypeData returns them:
\* volume in tenths of a cubic metre (0: missing or zero), portionSize (0:
\* missing), typeMaterials in enumeration order
TypeData(id, volume, portionSize, typeMaterials) ==
  [typeId |-> id, volume |-> volume, portionSize |-> portionSize,
   typeMaterials |-> typeMaterials]

Ore1Clean == TypeData(1, 1, 10, <<Mat(3, 4), Mat(4, 2)>>)
Ore2Clean == TypeData(2, 2, 1, <<Mat(4, 4), Mat(3, 4)>>)

\* volume and portion size missing, a zero quantity
Ore1Gaps == TypeData(1, 0, 0, <<Mat(3, 0), Mat(4, 2)>>)
\* units that do not fill a whole number of portions
Ore2Odd == TypeData(2, 3, 10, <<Mat(3, 1), Mat(4, 3)>>)

\* a negative volume, a negative quantity, a zero material identity
Ore1Bad == TypeData(1, -1, 1, <<Mat(3, -1), Mat(0, 2)>>)

\* sell.min of the Jita aggregates per type ID; 0: no record, or no sell order
PricesAll == (1 :> 5) @@ (2 :> 3) @@ (3 :> 1) @@ (4 :> 2)
PricesNoOre == (1 :> 0) @@ (2 :> 3) @@ (3 :> 10) @@ (4 :> 2)
PricesNoOut == (1 :> 5) @@ (2 :> 20) @@ (3 :> 0) @@ (4 :> 2)

World(ore1, ore2, prices) ==
  [types |-> (1 :> ore1) @@ (2 :> ore2), prices |-> prices]

Worlds == { World(Ore1Clean, Ore2Clean, PricesAll),
            World(Ore1Gaps, Ore2Odd, PricesNoOre),
            World(Ore1Bad, Ore2Clean, PricesNoOut) }

-----------------------------------------------------------------------------
(* onCalculate's computation of the candidate rows (src/app.js 748-836)    *)

ZeroRat == [num |-> 0, den |-> 1]

\* total * (3600 / usedSeconds), usedSeconds > 0
perHour(total, usedSeconds) ==
  LET f == Reduce(HourSeconds, usedSeconds)
  IN  Reduce(total * f.num, f.den)

\* the sign of a - b for fractions a, b
RatCmp(a, b) == a.num * b.den - b.num * a.den

\* a price map as getPricesFuzzwork / getPricesESI build it: an entry for
\* every id > 0 asked for, sellMin null unless the market has a price > 0
priceMapOf(w, ids) ==
  [id \in {i \in ids : i > 0} |->
     IF id \in DOMAIN w.prices /\ w.prices[id] > 0
     THEN Known(w.prices[id]) ELSE Unknown]

getPriceSellMin(priceMap, typeId) ==
  IF typeId \in DOMAIN priceMap THEN priceMap[typeId] ELSE Unknown

\* const units = Math.floor(totalM3 / (td.volume || 1));
minedUnits(totalM3, volume) ==
  FloorDiv(totalM3, IF volume = 0 THEN OneM3 ELSE volume)

\* const yieldFrac = Math.max(0, Math.min(1, reprocessYieldPct / 100));
yieldFrac(yieldPct) == Reduce(Max2(0, Min2(FullPct, yieldPct)), FullPct)

\* the comparator of the reprocessRows sort:
\* (b.totalValue ?? 0) - (a.totalValue ?? 0)
cmpValueDesc(a, b) == OrZero(b.totalValue) - OrZero(a.totalValue)

\* the reprocessRows of one candidate, before the sort (lines 791-813)
reprocessRowsOf(td, unitsMined, priceMap, yieldPct) ==
  LET yf == yieldFrac(yieldPct)
      portion == Max2(1, td.portionSize)
      portions == FloorDiv(unitsMined, portion)
      row(mat) ==
        LET qty == FloorDiv(portions * mat.quantity * yf.num, yf.den)
            sellMin == getPriceSellMin(priceMap, mat.material_type_id)
        IN  [typeId |-> mat.material_type_id, qty |-> qty,
             sellMin |-> sellMin,
             totalValue |-> IF sellMin.known
                            THEN Known(sellMin.val * qty * 100)
                            ELSE Unknown]
  IN  [i \in 1..Len(td.typeMaterials) |-> row(td.typeMaterials[i])]

RECURSIVE SumValues(_)
SumValues(rows) ==
  IF rows = <<>> THEN 0
  ELSE OrZero(rows[1].totalValue) + SumValues(Tail(rows))

\* a candidate whose net total forgets the fee
candidateRowFeeKept(td, unitsMined, priceMap, yieldPct, taxPct, usedSeconds) ==
  LET oreSell == getPriceSellMin(priceMap, td.typeId)
      rawTotal == IF oreSell.known THEN Known(oreSell.val * unitsMined * 100)
                  ELSE Unknown
      unsorted == reprocessRowsOf(td, unitsMined, priceMap, yieldPct)
      reprocessTotal == SumValues(unsorted)
      taxFee == IF taxPct > 0 THEN (reprocessTotal * taxPct) \div 100 ELSE 0
  IN  [typeId |-> td.typeId, typeData |-> td, unitsMined |-> unitsMined,
       oreSell |-> oreSell, rawTotal |-> rawTotal,
       rawPerHour |-> IF usedSeconds > 0 /\ rawTotal.known
                      THEN Known(perHour(rawTotal.val, usedSeconds))
                      ELSE Unknown,
       reprocessRows |-> SortBy(unsorted, cmpValueDesc),
       reprocessTotal |-> reprocessTotal, taxFee |-> taxFee,
       reprocessNet |-> reprocessTotal,
       reprocessPerHour |-> IF usedSeconds > 0
                            THEN Known(perHour(reprocessTotal, usedSeconds))
                            ELSE Unknown]

\* one element of rows = mined.map(...): money in hundredths of an ISK
candidateRow(td, unitsMined, priceMap, yieldPct, taxPct, usedSeconds) ==
  LET oreSell == getPriceSellMin(priceMap, td.typeId)
      rawTotal == IF oreSell.known THEN Known(oreSell.val * unitsMined * 100)
                  ELSE Unknown
      unsorted == reprocessRowsOf(td, unitsMined, priceMap, yieldPct)
      reprocessTotal == SumValues(unsorted)
      taxFee == IF taxPct > 0 THEN (reprocessTotal * taxPct) \div 100 ELSE 0
      reprocessNet == reprocessTotal - taxFee
  IN  [typeId |-> td.typeId, typeData |-> td, unitsMined |-> unitsMined,
       oreSell |-> oreSell, rawTotal |-> rawTotal,
       rawPerHour |-> IF usedSeconds > 0 /\ rawTotal.known
                      THEN Known(perHour(rawTotal.val, usedSeconds))
                      ELSE Unknown,
       reprocessRows |-> SortBy(unsorted, cmpValueDesc),
       reprocessTotal |-> reprocessTotal, taxFee |-> taxFee,
       reprocessNet |-> reprocessNet,
       reprocessPerHour |-> IF usedSeconds > 0
                            THEN Known(perHour(reprocessNet, usedSeconds))
                            ELSE Unknown]

\* the comparator of the default selection's sort:
\* (b.reprocessPerHour ?? 0) - (a.reprocessPerHour ?? 0)
RatOrZero(x) == IF x.known THEN x.val ELSE ZeroRat
cmpReprocessPerHourDesc(a, b) ==
  RatCmp(RatOrZero(b.reprocessPerHour), RatOrZero(a.reprocessPerHour))

\* a default selection that takes the last row of an ascending sort
cmpReprocessPerHourAsc(a, b) ==
  RatCmp(RatOrZero(a.reprocessPerHour), RatOrZero(b.reprocessPerHour))
bestRowLast(rows) == SortBy(rows, cmpReprocessPerHourAsc)[Len(rows)]

\* const best = rows.slice().sort(...)[0] || rows[0];
bestRow(rows) == SortBy(rows, cmpReprocessPerHourDesc)[1]

-----------------------------------------------------------------------------
(* Rendering (src/app.js 339-439, 602-690, 870-876)                        *)

\* renderSummary: rawValue and reprocessValue arrive as numbers (?? 0)
renderSummary(input, cyclesInfo, td, units, rawValue, reprocessValue, tax) ==
  [kind |-> "result", typeId |-> td.typeId,
   durationMinutes |-> input.durationMinutes,
   cycleTimeSeconds |-> input.cycleTimeSeconds,
   cycles |-> cyclesInfo.cycles, usedSeconds |-> cyclesInfo.usedSeconds,
   leftoverSeconds |-> cyclesInfo.leftoverSeconds,
   units |-> units, rawValue |-> rawValue, reprocessValue |-> reprocessValue,
   hrRaw |-> IF cyclesInfo.usedSeconds > 0
             THEN perHour(rawValue, cyclesInfo.usedSeconds) ELSE ZeroRat,
   hrRe |-> IF cyclesInfo.usedSeconds > 0
            THEN perHour(reprocessValue, cyclesInfo.usedSeconds) ELSE ZeroRat,
   yieldPct |-> input.reprocessYieldPct, portionSize |-> td.portionSize,
   tax |-> tax]

\* renderRawRow: a price cell and a total cell, each a number or the dash
renderRawRow(td, units, price) ==
  [kind |-> "row", typeId |-> td.typeId, volume |-> td.volume,
   units |-> units,
   price |-> IF price.known /\ price.val # 0 THEN price ELSE Unknown,
   total |-> IF price.known /\ price.val # 0
             THEN Known(units * price.val * 100) ELSE Unknown]

renderRawSelected(row) == renderRawRow(row.typeData, row.unitsMined, row.oreSell)

renderReprocessTable(materialsRows, total) ==
  [kind |-> IF materialsRows = <<>> THEN "nomaterials" ELSE "rows",
   rows |-> [i \in 1..Len(materialsRows) |->
               [typeId |-> materialsRows[i].typeId,
                qty |-> materialsRows[i].qty,
                sellMin |-> materialsRows[i].sellMin,
                totalValue |-> materialsRows[i].totalValue]],
   total |-> total]

\* renderCompare: reprocessTotal is always a finite number here
renderCompare(rawTotal, reprocessTotal, usedSeconds, taxPct) ==
  LET diff == reprocessTotal - OrZero(rawTotal)
  IN  [kind |-> "compare", diff |-> diff,
       perHour |-> IF usedSeconds > 0 THEN perHour(diff, usedSeconds)
                   ELSE ZeroRat,
       taxPct |-> taxPct]

SortKeys == {"name", "unitsMined", "rawPerHour", "reprocessPerHour",
             "rawTotal", "reprocessNet"}

\* a[state.key] ?? 0: the rows have no field "name"
keyValue(row, key) ==
  CASE key = "unitsMined" -> [num |-> row.unitsMined, den |-> 1]
    [] key = "rawPerHour" -> RatOrZero(row.rawPerHour)
    [] key = "reprocessPerHour" -> RatOrZero(row.reprocessPerHour)
    [] key = "rawTotal" -> [num |-> OrZero(row.rawTotal), den |-> 1]
    [] key = "reprocessNet" -> [num |-> row.reprocessNet, den |-> 1]
    [] OTHER -> ZeroRat

\* an ascending order obtained by reversing the descending one
sortedRowsReversing(rows, state) ==
  LET cmp(a, b) == RatCmp(keyValue(b, state.key), keyValue(a, state.key))
      desc == SortBy(rows, cmp)
  IN  IF state.dir = "asc"
      THEN [k \in 1..Len(desc) |-> desc[Len(desc) + 1 - k]]
      ELSE desc

sortedRows(rows, state) ==
  LET cmp(a, b) == IF state.dir = "asc"
                   THEN RatCmp(keyValue(a, state.key), keyValue(b, state.key))
                   ELSE RatCmp(keyValue(b, state.key), keyValue(a, state.key))
  IN  SortBy(rows, cmp)

\* renderComparison: the table's rows in display order, each with its
\* row-selected mark, and the rows, usedSeconds and taxPct its handlers keep
renderComparison(rows, usedSeconds, taxPct, state) ==
  LET sorted == sortedRows(rows, state)
      selId == IF state.selectedTypeId.known THEN state.selectedTypeId.val
               ELSE sorted[1].typeId
  IN  [kind |-> "table", key |-> state.key, dir |-> state.dir,
       shown |-> [i \in 1..Len(sorted) |->
                    [typeId |-> sorted[i].typeId,
                     unitsMined |-> sorted[i].unitsMined,
                     rawPerHour |-> sorted[i].rawPerHour,
                     reprocessPerHour |-> sorted[i].reprocessPerHour,
                     rawTotal |-> sorted[i].rawTotal,
                     reprocessNet |-> sorted[i].reprocessNet,
                     selected |-> (selId = sorted[i].typeId)]],
       rows |-> rows, usedSeconds |-> usedSeconds, taxPct |-> taxPct]

Placeholder(msg) == [kind |-> "message", msg |-> msg]
EmptyBox == [kind |-> "empty"]
NoCycles == "No full cycles to compute."

Status(msg, kind) == [msg |-> msg, kind |-> kind]

-----------------------------------------------------------------------------
(* What the user enters, and the bounds of the model                       *)

MaxPasses == 2          \* onCalculate invocations per behaviour

Form(y, c, d, tid, names, src) ==
  [yieldPerCycle |-> y, cycleTimeSeconds |-> c, durationMinutes |-> d,
   materialTypeId |-> tid, materialName |-> names, priceSource |-> src]

TypeIdInputs == {0, 1}               \* #materialTypeId (0: empty)
\* #materialName, split at commas; ESI knows no type "X"
NameInputs == {<<>>, <<"A", "B">>, <<"X", "A">>}
PriceSources == {"fuzzwork", "esi"}  \* #priceSource

\* what the form holds at a submit: 10 m3 per 60 s cycle for 2 minutes and
\* any material entry, or one number changed to an invalid or too short one
FormEntries ==
  { Form(100, 600, 20, tid, names, src) :
      tid \in TypeIdInputs, names \in NameInputs, src \in PriceSources }
  \cup { Form(0, 600, 20, 1, <<>>, "fuzzwork"),
         Form(100, 0, 20, 1, <<>>, "fuzzwork"),
         Form(100, 600, -10, 1, <<>>, "fuzzwork"),
         Form(100, 600, 5, 0, <<"A", "B">>, "fuzzwork"),
         Form(100, 600, 0, 1, <<>>, "esi") }

YieldEntries == {-500, 5000, 15000}  \* typed into #reprocessYieldPct

-----------------------------------------------------------------------------
(* onCalculate (src/app.js 692-867)                                        *)

resultPanels == <<summary, rawTable, reprocessTable, compareBox>>

\* the record of the most recent invocation is kept up to date
NoteLast(id, latest, outcome, summ) ==
  lastStart' = IF id = latest THEN [outcome |-> outcome, summary |-> summ]
               ELSE lastStart

\* an error handler that also clears the result panels
AbortClearing(id, latest, msg) ==
  /\ status' = Status(msg, "error")
  /\ passes' = {q \in passes : q.id # id}
  /\ lastStart' = IF id = latest
                  THEN [outcome |-> "error", summary |-> Placeholder(msg)]
                  ELSE lastStart
  /\ summary' = Placeholder(msg)
  /\ rawTable' = Placeholder(msg)
  /\ reprocessTable' = [kind |-> "message", msg |-> msg, total |-> Unknown]
  /\ compareBox' = EmptyBox
  /\ renderedBy' = id
  /\ UNCHANGED compareState

\* catch (err): the error's message goes to the status, nothing else is done
Abort(id, latest, msg) ==
  /\ status' = Status(msg, "error")
  /\ passes' = {q \in passes : q.id # id}
  /\ NoteLast(id, latest, "error", summary)
  /\ UNCHANGED <<resultPanels, compareState, renderedBy>>

\* an empty rendering that forgets the comparison box
RenderEmptyKeepCompare(id) ==
  /\ summary' = Placeholder(NoCycles)
  /\ rawTable' = Placeholder(NoCycles)
  /\ reprocessTable' = [kind |-> "message", msg |-> NoCycles, total |-> Unknown]
  /\ UNCHANGED compareBox
  /\ status' = Status(NoCycles, "warn")
  /\ renderedBy' = id

\* renderEmptyAfterCalc, then the warning
RenderEmpty(id) ==
  /\ summary' = Placeholder(NoCycles)
  /\ rawTable' = Placeholder(NoCycles)
  /\ reprocessTable' = [kind |-> "message", msg |-> NoCycles, total |-> Unknown]
  /\ compareBox' = EmptyBox
  /\ status' = Status(NoCycles, "warn")
  /\ renderedBy' = id

\* the ids whose prices are asked for: the ores and all their materials
idsAllOf(p) ==
  {p.targets[i] : i \in 1..Len(p.targets)}
  \cup UNION {{m.material_type_id : m \in Range(p.typeDatas[t].typeMaterials)} :
                t \in DOMAIN p.typeDatas}

rowsOf(p, priceMap) ==
  [i \in 1..Len(p.targets) |->
     LET td == p.typeDatas[p.targets[i]]
     IN  candidateRow(td, minedUnits(p.totalM3, td.volume), priceMap,
                      p.reprocessYieldPct, p.taxPct, p.cyclesInfo.usedSeconds)]

\* lines 838-862: the default selection, the rendering, "Done."
RenderResult(p, rows, best) ==
  LET summ == renderSummary(p, p.cyclesInfo, best.typeData, best.unitsMined,
                            OrZero(best.rawTotal), best.reprocessNet,
                            reprocessTaxPct)
      state == [compareState EXCEPT !.selectedTypeId = Known(best.typeId)]
  IN  /\ summary' = summ
      /\ rawTable' = renderRawSelected(best)
      /\ reprocessTable' = renderReprocessTable(best.reprocessRows,
                                                best.reprocessNet)
      /\ IF Len(rows) = 1
         THEN /\ compareBox' = renderCompare(best.rawTotal, best.reprocessNet,
                                             p.cyclesInfo.usedSeconds, p.taxPct)
              /\ UNCHANGED compareState
         ELSE /\ compareState' = state
              /\ compareBox' = renderComparison(rows, p.cyclesInfo.usedSeconds,
                                                p.taxPct, state)
      /\ status' = Status("Done.", "")
      /\ passes' = {q \in passes : q.id # p.id}
      /\ renderedBy' = p.id
      /\ NoteLast(p.id, started, "done", summ)

\* lines 783-862, once the prices are there: rows and best are computed once
Finish(p, priceMap) ==
  \E rows \in {rowsOf(p, priceMap)} :
    \E best \in {bestRow(rows)} : RenderResult(p, rows, best)

\* the synchronous head of onCalculate, up to its first await or its return
Submit ==
  /\ started < MaxPasses
  /\ \E f \in FormEntries :
       LET id == started + 1
           y == f.yieldPerCycle
           c == f.cycleTimeSeconds
           d == f.durationMinutes
           tid == f.materialTypeId
           names == f.materialName
           src == f.priceSource
           ci == calcCycles(d, c)
           p == [id |-> id, pc |-> "typedata",
                 durationMinutes |-> d, cycleTimeSeconds |-> c,
                 cyclesInfo |-> ci, totalM3 |-> ci.cycles * y,
                 reprocessYieldPct |-> reprocessYieldPct,
                 taxPct |-> reprocessTaxPct, priceSource |-> src,
                 names |-> SubSeq(names, 1, Min2(Len(names), NameCap)),
                 targets |-> <<>>, typeDatas |-> <<>>, tdDone |-> 0,
                 esiDone |-> 0]
       IN  /\ started' = id
           /\ form' = f
           /\ UNCHANGED <<world, reprocessYieldPct, reprocessTaxPct, adv,
                          effLocal, typeCache, calc, cacheVars>>
           /\ IF ~(y > 0) THEN Abort(id, id, "Yield per cycle must be > 0.")
              ELSE IF ~(c > 0) THEN Abort(id, id, "Cycle time must be > 0.")
              ELSE IF ~(d >= 0) THEN Abort(id, id, "Duration must be >= 0.")
              ELSE IF ci.cycles <= 0
                THEN /\ RenderEmpty(id)
                     /\ NoteLast(id, id, "empty", Placeholder(NoCycles))
                     /\ UNCHANGED <<passes, compareState>>
              ELSE IF tid > 0
                THEN /\ status' = Status("Fetching type data...", "")
                     \* the names entered are not read on this path
                     /\ passes' = passes \cup {[p EXCEPT !.targets = <<tid>>,
                                                         !.names = <<>>]}
                     /\ NoteLast(id, id, "running", summary)
                     /\ UNCHANGED <<resultPanels, compareState, renderedBy>>
              ELSE IF names = <<>>
                THEN Abort(id, id, "Enter a material name or a Type ID.")
              ELSE /\ status' = Status("Resolving type IDs...", "")
                   /\ passes' = passes \cup {[p EXCEPT !.pc = "resolve"]}
                   /\ NoteLast(id, id, "running", summary)
                   /\ UNCHANGED <<resultPanels, compareState, renderedBy>>

OtherVars == <<world, form, reprocessYieldPct, reprocessTaxPct, adv, effLocal,
               calc, cacheVars>>

\* await resolveTypeIdFromName(nm) returns, for the next name of the list
ResolveReturns(p) ==
  /\ p.pc = "resolve"
  /\ UNCHANGED <<OtherVars, started, typeCache>>
  /\ LET nm == p.names[Len(p.targets) + 1]
     IN  \/ Abort(p.id, started, "ESI /universe/ids failed: HTTP error")
         \/ /\ nm \notin DOMAIN NameIds
            /\ Abort(p.id, started, "Could not resolve the name.")
         \/ /\ nm \in DOMAIN NameIds
            /\ LET targets == Append(p.targets, NameIds[nm])
                   last == Len(targets) = Len(p.names)
               IN  /\ passes' = {q \in passes : q.id # p.id} \cup
                          {[p EXCEPT !.targets = targets,
                                     !.pc = IF last THEN "typedata"
                                            ELSE "resolve"]}
                   /\ status' = IF last THEN Status("Fetching type data...", "")
                                ELSE status
                   /\ NoteLast(p.id, started, "running", summary)
                   /\ UNCHANGED <<resultPanels, compareState, renderedBy>>

\* await getTypeData(t.typeId) returns, for the next target: from fetchJson's
\* cache, or from the network, which may fail
TypeDataReturns(p) ==
  /\ p.pc = "typedata"
  /\ UNCHANGED <<OtherVars, started>>
  /\ LET t == p.targets[p.tdDone + 1]
         \* typeDatas.set: the Map holds one entry per distinct type ID
         typeDatas == (t :> world.types[t]) @@ p.typeDatas
         last == p.tdDone + 1 = Len(p.targets)
     IN  \/ /\ t \notin typeCache
            /\ Abort(p.id, started, "HTTP error for the type data URL")
            /\ UNCHANGED typeCache
         \/ /\ typeCache' = typeCache \cup {t}
            /\ passes' = {q \in passes : q.id # p.id} \cup
                   {[p EXCEPT !.typeDatas = typeDatas,
                              !.tdDone = p.tdDone + 1,
                              !.pc = IF last THEN "names" ELSE "typedata"]}
            /\ status' = IF last THEN Status("Resolving type names...", "")
                         ELSE status
            /\ NoteLast(p.id, started, "running", summary)
            /\ UNCHANGED <<resultPanels, compareState, renderedBy>>

\* await getNamesESI(idsAll) returns; then the price source is chosen
NamesReturn(p) ==
  /\ p.pc = "names"
  /\ UNCHANGED <<OtherVars, started, typeCache>>
  /\ \/ Abort(p.id, started, "ESI universe/names failed: HTTP error")
     \/ /\ passes' = {q \in passes : q.id # p.id} \cup
               {[p EXCEPT !.pc = IF p.priceSource = "esi" /\ Len(p.targets) = 1
                                 THEN "esi" ELSE "prices"]}
        /\ status' =
             IF p.priceSource = "esi" /\ Len(p.targets) > 1
             THEN Status("Comparison mode: using Fuzzwork prices.", "warn")
             ELSE IF p.priceSource = "esi"
             THEN Status("Fetching prices from ESI...", "")
             ELSE Status("Fetching prices from Fuzzwork...", "")
        /\ NoteLast(p.id, started, "running", summary)
        /\ UNCHANGED <<resultPanels, compareState, renderedBy>>

\* await getPricesFuzzwork(idsAll) returns
PricesReturn(p) ==
  /\ p.pc = "prices"
  /\ UNCHANGED <<OtherVars, started, typeCache>>
  /\ \/ Abort(p.id, started, "HTTP error for the aggregates URL")
     \/ Finish(p, priceMapOf(world, idsAllOf(p)))

\* getPricesESI: await getBestJitaSell_ESI(id) returns for the next id; after
\* the last one the rows are computed and rendered
EsiPriceReturns(p) ==
  /\ p.pc = "esi"
  /\ UNCHANGED <<OtherVars, started, typeCache>>
  /\ LET total == Cardinality({i \in idsAllOf(p) : i > 0})
     IN  \/ Abort(p.id, started, "ESI market orders failed: HTTP error")
         \/ /\ p.esiDone + 1 < total
            /\ passes' = {q \in passes : q.id # p.id} \cup
                   {[p EXCEPT !.esiDone = p.esiDone + 1]}
            /\ status' = [msg |-> "ESI pricing...", kind |-> "",
                          done |-> p.esiDone + 1, total |-> total]
            /\ NoteLast(p.id, started, "running", summary)
            /\ UNCHANGED <<resultPanels, compareState, renderedBy>>
         \/ /\ p.esiDone + 1 >= total
            /\ Finish(p, priceMapOf(world, idsAllOf(p)))

-----------------------------------------------------------------------------
(* The other handlers (src/app.js 535-551, 666-689, 887-890, 917-949)      *)

Adv(basePct, rigPts, secPct, skillR, skillRE, skillOP, implantPct, taxPct) ==
  [basePct |-> basePct, rigPts |-> rigPts, secPct |-> secPct,
   skillR |-> skillR, skillRE |-> skillRE, skillOP |-> skillOP,
   implantPct |-> implantPct, taxPct |-> taxPct]

\* the advanced panel as the page loads it: the preset's base, no bonuses
AdvDefault == Adv(50, 0, 0, 0, 0, 0, 0, 0)

\* what the user enters in the advanced panel between two clicks
AdvEntries == { Adv(52, 0, 10, 0, 0, 0, 0, 0),
                Adv(50, 2, 10, 5, 5, 5, 5, 10),
                Adv(-10, 0, 0, 9, -1, 0, -5, -3) }

NoEff == [applied |-> FALSE, eff |-> ZeroRat]

\* the user types into #reprocessYieldPct
EditYield ==
  /\ \E y \in YieldEntries : reprocessYieldPct' = y
  /\ UNCHANGED <<world, form, reprocessTaxPct, adv, effLocal, compareState,
                 status, resultPanels, passes, started, lastStart,
                 renderedBy, typeCache, calc, cacheVars>>

\* the user fills in the advanced panel
EditAdvanced ==
  /\ \E a \in AdvEntries : adv' = a
  /\ UNCHANGED <<world, form, reprocessYieldPct, reprocessTaxPct, effLocal,
                 compareState, status, resultPanels, passes, started,
                 lastStart, renderedBy, typeCache, calc, cacheVars>>

\* the applyBtn click handler
ApplyAdvanced ==
  LET eff == effectiveYield(adv)
      taxPct == Max2(0, adv.taxPct)
  IN  /\ effLocal' = [applied |-> TRUE, eff |-> eff]
      /\ reprocessYieldPct' = fmtPct2(eff)
      /\ reprocessTaxPct' = taxPct
      /\ status' = [msg |-> "Applied advanced yield.", kind |-> "",
                    pct |-> fmtPct2(eff), tax |-> taxPct]
      /\ UNCHANGED <<world, form, adv, compareState, resultPanels, passes,
                     started, lastStart, renderedBy, typeCache, calc, cacheVars>>

\* resetUi, from the resetBtn click handler
ResetUi ==
  /\ reprocessYieldPct' = FullPct
  /\ reprocessTaxPct' = 0
  /\ summary' = Placeholder("Enter inputs and click Calculate.")
  /\ rawTable' = Placeholder("No calculation yet.")
  /\ reprocessTable' = [kind |-> "message", msg |-> "No calculation yet.",
                        total |-> Unknown]
  /\ compareBox' = EmptyBox
  /\ status' = Status("Ready.", "")
  /\ renderedBy' = 0
  /\ UNCHANGED <<world, form, adv, effLocal, compareState, passes, started,
                 lastStart, typeCache, calc, cacheVars>>

\* an active header that stays ascending once it is ascending
headerClickStateSticky(state, key) ==
  IF state.key = key THEN [state EXCEPT !.dir = "asc"]
  ELSE [state EXCEPT !.key = key, !.dir = "desc"]

\* lines 671-672: the sort state after a click on the header of column key
headerClickState(state, key) ==
  IF state.key = key
  THEN [state EXCEPT !.dir = IF state.dir = "asc" THEN "desc" ELSE "asc"]
  ELSE [state EXCEPT !.key = key, !.dir = "desc"]

\* a click on the comparison table's header of column key
HeaderClick(key) ==
  /\ compareBox.kind = "table"
  /\ LET state == headerClickState(compareState, key)
     IN  /\ compareState' = state
         /\ compareBox' = renderComparison(compareBox.rows,
                              compareBox.usedSeconds, compareBox.taxPct, state)
  /\ UNCHANGED <<world, form, reprocessYieldPct, reprocessTaxPct, adv, effLocal,
                 status, summary, rawTable, reprocessTable, passes, started,
                 lastStart, renderedBy, typeCache, calc, cacheVars>>

\* a row click that marks the row and leaves the two detail tables alone
RowClickKeepDetail(i) ==
  /\ compareBox.kind = "table"
  /\ i \in 1..Len(compareBox.shown)
  /\ LET state == [compareState EXCEPT
                     !.selectedTypeId = Known(compareBox.shown[i].typeId)]
     IN  /\ compareState' = state
         /\ compareBox' = renderComparison(compareBox.rows,
                              compareBox.usedSeconds, compareBox.taxPct, state)
  /\ UNCHANGED <<world, form, reprocessYieldPct, reprocessTaxPct, adv, effLocal,
                 status, summary, rawTable, reprocessTable, passes, started,
                 lastStart, renderedBy, typeCache, calc, cacheVars>>

\* a click on the i-th row shown in the comparison table
RowClick(i) ==
  /\ compareBox.kind = "table"
  /\ i \in 1..Len(compareBox.shown)
  /\ LET rows == compareBox.rows
         id == compareBox.shown[i].typeId
         \* rows.find((x) => x.typeId === id) || rows[0]
         hits == {k \in 1..Len(rows) : rows[k].typeId = id}
         picked == IF hits = {} THEN rows[1]
                   ELSE rows[CHOOSE k \in hits : \A m \in hits : k <= m]
         state == [compareState EXCEPT !.selectedTypeId = Known(picked.typeId)]
     IN  /\ compareState' = state
         /\ rawTable' = renderRawSelected(picked)
         /\ reprocessTable' = renderReprocessTable(picked.reprocessRows,
                                                   picked.reprocessNet)
         /\ compareBox' = renderComparison(rows, compareBox.usedSeconds,
                                           compareBox.taxPct, state)
  /\ UNCHANGED <<world, form, reprocessYieldPct, reprocessTaxPct, adv, effLocal,
                 status, summary, passes, started, lastStart, renderedBy,
                 typeCache, calc, cacheVars>>

-----------------------------------------------------------------------------
(* fetchJson and its two caches (src/app.js 119-166, 200, 219)             *)

Urls == {"types", "prices"}   \* the type data url and the aggregates url

PriceTtl == 2          \* ttlMs of getPricesFuzzwork: 5 minutes
TypeTtl == 4032        \* ttlMs of getTypeData: 7 days
ttlMsOf(url) == IF url = "prices" THEN PriceTtl ELSE TypeTtl

MaxTime == 3           \* the clock stops here
MaxFetchCalls == 3     \* the fetchJson calls of a behaviour

NoRecord == [has |-> FALSE, time |-> 0, data |-> 0]
Record(time, data) == [has |-> TRUE, time |-> time, data |-> data]
NoReturn == [id |-> 0, url |-> "", ttlMs |-> 0, now |-> 0, via |-> "none",
             data |-> 0]

\* a record that is still good when as old as ttlMs
freshInclusive(rec, t, ttlMs) == rec.has /\ t - rec.time <= ttlMs

\* lines 132 and 139: now - record.time < ttlMs
fresh(rec, t, ttlMs) == rec.has /\ t - rec.time < ttlMs

\* the clock moves on
Tick ==
  /\ now < MaxTime
  /\ now' = now + 1
  /\ UNCHANGED <<pageVars, calc, memCache, localStorage, fetches, fetchCalls,
                 returned>>

\* lines 129-149: fetchJson(url, {ttlMs}) up to its return from a cache or
\* its await of fetch(); localStorage.getItem may throw, which is ignored
FetchJsonCall(url) ==
  /\ fetchCalls < MaxFetchCalls
  /\ fetchCalls' = fetchCalls + 1
  /\ LET id == fetchCalls + 1
         ttlMs == ttlMsOf(url)
         mem == memCache[url]
         ret(via, data) == [id |-> id, url |-> url, ttlMs |-> ttlMs,
                            now |-> now, via |-> via, data |-> data]
         toNetwork == /\ fetches' = fetches \cup
                                      {[id |-> id, url |-> url,
                                        ttlMs |-> ttlMs, now |-> now]}
                      /\ UNCHANGED <<memCache, returned>>
     IN  IF mem.has /\ (ttlMs <= 0 \/ fresh(mem, now, ttlMs))
         THEN /\ returned' = ret("memCache", mem.data)
              /\ UNCHANGED <<memCache, fetches>>
         ELSE \/ /\ ttlMs > 0 /\ fresh(localStorage[url], now, ttlMs)
                 /\ memCache' = [memCache EXCEPT ![url] = localStorage[url]]
                 /\ returned' = ret("localStorage", localStorage[url].data)
                 /\ UNCHANGED fetches
              \/ /\ ~(ttlMs > 0 /\ fresh(localStorage[url], now, ttlMs))
                 /\ toNetwork
              \/ /\ ttlMs > 0          \* getItem or JSON.parse throws
                 /\ toNetwork
  /\ UNCHANGED <<pageVars, calc, now, localStorage>>

\* lines 149-165: the response is ok and is JSON; the data is the server's
\* snapshot of that moment; localStorage.setItem may throw, which is ignored
FetchReturns(c) ==
  /\ c \in fetches
  /\ fetches' = fetches \ {c}
  /\ LET data == now + 1
         record == Record(c.now, data)
     IN  /\ memCache' = [memCache EXCEPT ![c.url] = record]
         /\ \/ /\ c.ttlMs > 0
               /\ localStorage' = [localStorage EXCEPT ![c.url] = record]
            \/ UNCHANGED localStorage
         /\ returned' = [id |-> c.id, url |-> c.url, ttlMs |-> c.ttlMs,
                         now |-> c.now, via |-> "network", data |-> data]
  /\ UNCHANGED <<pageVars, calc, now, fetchCalls>>

\* lines 149-153: fetch() rejects, the response is not ok, or it is not JSON
FetchFails(c) ==
  /\ c \in fetches
  /\ fetches' = fetches \ {c}
  /\ returned' = [id |-> c.id, url |-> c.url, ttlMs |-> c.ttlMs,
                  now |-> c.now, via |-> "error", data |-> 0]
  /\ UNCHANGED <<pageVars, calc, now, memCache, localStorage, fetchCalls>>

\* line 122, evaluated when the page is loaded again: the Map is new, the
\* calls of the old page are gone, localStorage is what it was
Reload ==
  /\ memCache # [u \in Urls |-> NoRecord] \/ fetches # {}
  /\ memCache' = [u \in Urls |-> NoRecord]
  /\ fetches' = {}
  /\ UNCHANGED <<pageVars, calc, now, localStorage, fetchCalls, returned>>

BootCache ==
  /\ now = 0
  /\ memCache = [u \in Urls |-> NoRecord]
  /\ localStorage = [u \in Urls |-> NoRecord]
  /\ fetches = {}
  /\ fetchCalls = 0
  /\ returned = NoReturn

-----------------------------------------------------------------------------
(* The page after boot(), and its steps                                    *)

NoCalc == [fn |-> "none"]

\* resetUi's form: 1000 m3 per 92.2 s cycle for 15 minutes, no material
FormDefault == Form(10000, 922, 150, 0, <<>>, "fuzzwork")

\* the page after boot(), but for the advanced panel's fields
BootPage ==
  /\ form = FormDefault
  /\ reprocessYieldPct = FullPct
  /\ reprocessTaxPct = 0
  /\ effLocal = NoEff
  /\ compareState = [key |-> "reprocessPerHour", dir |-> "desc",
                     selectedTypeId |-> Unknown]
  /\ status = Status("Ready.", "")
  /\ summary = Placeholder("Enter inputs and click Calculate.")
  /\ rawTable = Placeholder("No calculation yet.")
  /\ reprocessTable = [kind |-> "message", msg |-> "No calculation yet.",
                       total |-> Unknown]
  /\ compareBox = EmptyBox
  /\ passes = {}
  /\ started = 0
  /\ lastStart = [outcome |-> "none", summary |-> summary]
  /\ renderedBy = 0
  /\ typeCache = {}
  /\ BootCache

BootState == BootPage /\ adv = AdvDefault

Init ==
  /\ world \in Worlds
  /\ BootState
  /\ calc = NoCalc

Next ==
  \/ Submit
  \/ \E p \in passes : ResolveReturns(p)
  \/ \E p \in passes : TypeDataReturns(p)
  \/ \E p \in passes : NamesReturn(p)
  \/ \E p \in passes : PricesReturn(p)
  \/ \E p \in passes : EsiPriceReturns(p)
  \/ ResetUi

\* the calculation passes, started at any time and running concurrently
Spec == Init /\ [][Next]_vars


-----------------------------------------------------------------------------
(* The page used by one user who may set the yield first, waits for each   *)
(* calculation to finish and clicks in the comparison table                *)

MaxTargets == 2         \* the rows of the comparison table

NextPage ==
  \/ passes = {} /\ Submit
  \/ \E p \in passes : ResolveReturns(p)
  \/ \E p \in passes : TypeDataReturns(p)
  \/ \E p \in passes : NamesReturn(p)
  \/ \E p \in passes : PricesReturn(p)
  \/ \E p \in passes : EsiPriceReturns(p)
  \/ started = 0 /\ EditYield
  \/ passes = {} /\ ResetUi
  \/ passes = {} /\ \E key \in SortKeys : HeaderClick(key)
  \/ passes = {} /\ \E i \in 1..MaxTargets : RowClick(i)

SpecPage == Init /\ [][NextPage]_vars

-----------------------------------------------------------------------------
(* The page used by one user who sets the yield, by hand or through the    *)
(* advanced panel, and then runs one calculation                           *)

NextSetup ==
  \/ started = 0 /\ EditYield
  \/ started = 0 /\ EditAdvanced
  \/ started = 0 /\ ApplyAdvanced
  \/ started = 0 /\ Submit
  \/ \E p \in passes : ResolveReturns(p)
  \/ \E p \in passes : TypeDataReturns(p)
  \/ \E p \in passes : NamesReturn(p)
  \/ \E p \in passes : PricesReturn(p)
  \/ \E p \in passes : EsiPriceReturns(p)

SpecSetup == Init /\ [][NextSetup]_vars

-----------------------------------------------------------------------------
(* The calculation functions on their own: one call per behaviour          *)

MaxDuration == 12       \* durationMinutes, in tenths of a minute
MaxCycleTime == 25      \* cycleTimeSeconds, in tenths of a second
MaxVolume == 30         \* volumeM3, in tenths of a cubic metre
MaxUnitVolume == 7      \* unitVolumeM3, in tenths of a cubic metre

Call(fn, args) == [fn |-> fn, args |-> args, done |-> FALSE, out |-> <<>>]

\* durations and cycle times around zero, and 15 minutes of 92.2 s cycles
CycleCalls ==
  { Call("calcCycles", <<d, c>>) :
      d \in (-2)..MaxDuration, c \in (-1)..MaxCycleTime }
  \cup { Call("calcCycles", <<150, 922>>) }

\* volumes and unit volumes around zero, and 9000 m3 of 0.1 m3 units
UnitCalls ==
  { Call("calcUnitsMined", <<v, u>>) :
      v \in 0..MaxVolume, u \in (-1)..MaxUnitVolume }
  \cup { Call("calcUnitsMined", <<90000, 1>>) }

BreakdownInputs ==
  { <<>>, <<Mat(5, 400)>>, <<Mat(3, 4), Mat(4, 2)>>, <<Mat(4, 4), Mat(3, 4)>>,
    <<Mat(3, 0), Mat(4, 2)>>, <<Mat(3, -1), Mat(0, 2)>>,
    <<Mat(4, 1), Mat(3, 1), Mat(5, 7)>> }

\* units short of, at and past whole portions
ReprocessCalls ==
  { Call("computeReprocessOutputs", <<units, ps, mats, y>>) :
      units \in {0, 1, 99, 100, 1000, 1050}, ps \in {0, 1, 100},
      mats \in BreakdownInputs, y \in {-500, 0, 1, 5432, 10000, 15000} }

CallCalcCycles ==
  /\ calc.fn = "calcCycles" /\ ~calc.done
  /\ calc' = [calc EXCEPT !.done = TRUE,
                          !.out = calcCycles(calc.args[1], calc.args[2])]
  /\ UNCHANGED appVars

CallCalcUnitsMined ==
  /\ calc.fn = "calcUnitsMined" /\ ~calc.done
  /\ calc' = [calc EXCEPT !.done = TRUE,
                          !.out = calcUnitsMined(calc.args[1], calc.args[2])]
  /\ UNCHANGED appVars

CallComputeReprocessOutputs ==
  /\ calc.fn = "computeReprocessOutputs" /\ ~calc.done
  /\ calc' = [calc EXCEPT !.done = TRUE,
                          !.out = computeReprocessOutputs(calc.args[1],
                                    calc.args[2], calc.args[3], calc.args[4])]
  /\ UNCHANGED appVars

InitCalc ==
  /\ world = World(Ore1Clean, Ore2Clean, PricesAll)
  /\ BootState
  /\ calc \in CycleCalls \cup UnitCalls \cup ReprocessCalls

NextCalc ==
  \/ CallCalcCycles
  \/ CallCalcUnitsMined
  \/ CallComputeReprocessOutputs

SpecCalc == InitCalc /\ [][NextCalc]_vars

-----------------------------------------------------------------------------
(* The advanced panel on its own: any field values, then the Apply click   *)

AdvInputs ==
  { Adv(basePct, rigPts, secPct, skillR, skillRE, skillOP, implantPct, 0) :
      basePct \in {-10, 0, 50, 52, 120}, rigPts \in {-1, 0, 2},
      secPct \in {-5, 0, 6, 10}, skillR \in {-1, 0, 5, 7},
      skillRE \in {0, 5}, skillOP \in {0, 5}, implantPct \in {-5, 0, 5} }

InitYield ==
  /\ world = World(Ore1Clean, Ore2Clean, PricesAll)
  /\ BootPage
  /\ adv \in AdvInputs
  /\ calc = NoCalc

NextYield == ApplyAdvanced

SpecYield == InitYield /\ [][NextYield]_vars

-----------------------------------------------------------------------------
(* fetchJson on its own: calls for both urls at any time, answers of the   *)
(* network in any order, and reloads of the page                          *)

NextCache ==
  \/ Tick
  \/ \E url \in Urls : FetchJsonCall(url)
  \/ \E c \in fetches : FetchReturns(c)
  \/ \E c \in fetches : FetchFails(c)
  \/ Reload

InitCache ==
  /\ world = World(Ore1Clean, Ore2Clean, PricesAll)
  /\ BootState
  /\ calc = NoCalc

SpecCache == InitCache /\ [][NextCache]_vars

-----------------------------------------------------------------------------
(* Properties of the calculation functions (SpecCalc)                      *)

CyclesCalled == calc.fn = "calcCycles" /\ calc.done

\* C5: for durationMinutes >= 0 and cycleTimeSeconds > 0, calcCycles returns
\* cycles = floor(durationMinutes * 60 / cycleTimeSeconds) (the largest whole
\* number of cycles that fits, never rounded up), usedSeconds = cycles *
\* cycleTimeSeconds and leftoverSeconds = totalSeconds - usedSeconds, so
\* that used + leftover = total, used <= total and 0 <= leftover < cycle time
C5_CyclesFloor ==
  (CyclesCalled /\ calc.args[1] >= 0 /\ calc.args[2] > 0) =>
    LET total == calc.args[1] * 60
        c == calc.args[2]
        r == calc.out
    IN  /\ r.totalSeconds = total
        /\ r.cycles \in Nat
        /\ r.cycles * c <= total
        /\ total < (r.cycles + 1) * c
        /\ r.usedSeconds = r.cycles * c
        /\ r.leftoverSeconds = r.totalSeconds - r.usedSeconds
        /\ r.usedSeconds + r.leftoverSeconds = r.totalSeconds
        /\ r.usedSeconds <= r.totalSeconds
        /\ 0 <= r.leftoverSeconds /\ r.leftoverSeconds < c

\* a call with whole cycles and time left over: 15 minutes of 92.2 s cycles
C5_Witness ==
  /\ CyclesCalled /\ calc.args = <<150, 922>>
  /\ calc.out.cycles = 9 /\ calc.out.usedSeconds = 8298
  /\ calc.out.leftoverSeconds = 702

ReprocessCalled == calc.fn = "computeReprocessOutputs" /\ calc.done

\* the entries of a breakdown that computeReprocessOutputs keeps
ValidEntries(mats) ==
  {k \in 1..Len(mats) : mats[k].material_type_id > 0 /\ mats[k].quantity > 0}

\* C7: for units >= 0, portionSize >= 1 and a yield in [0, 100] percent,
\* every output quantity of computeReprocessOutputs is
\* floor(floor(units / portionSize) * q * y + 1e-9): units that do not fill
\* a whole portion add nothing
C7_WholePortionsOnly ==
  (ReprocessCalled /\ calc.args[1] >= 0 /\ calc.args[2] >= 1
     /\ calc.args[4] \in 0..FullPct) =>
    LET units == calc.args[1]
        ps == calc.args[2]
        mats == calc.args[3]
        portions == units \div ps
    IN  \A k \in ValidEntries(mats) :
          \E o \in Range(calc.out) :
            /\ o.typeId = mats[k].material_type_id
            /\ o.qty = FloorEps(portions * mats[k].quantity * calc.args[4],
                                FullPct)

-----------------------------------------------------------------------------
(* Properties of the advanced yield panel (SpecYield)                      *)

\* the effective yield with the security modifier applied or not
yieldWith(a, withSec) ==
  LET b0 == Reduce(a.basePct + a.rigPts, 100)
      b1 == IF withSec THEN RatMul(b0, 100 + a.secPct, 100) ELSE b0
      s(x) == IF x < 0 THEN 0 ELSE IF x > 5 THEN 5 ELSE x
      e1 == RatMul(b1, 100 + 3 * s(a.skillR), 100)
      e2 == RatMul(e1, 100 + 2 * s(a.skillRE), 100)
      e3 == RatMul(e2, 100 + 2 * s(a.skillOP), 100)
      e4 == RatMul(e3, 100 + (IF a.implantPct > 0 THEN a.implantPct ELSE 0),
                   100)
  IN  IF e4.num < 0 THEN [num |-> 0, den |-> 1]
      ELSE IF e4.num > e4.den THEN [num |-> 1, den |-> 1]
      ELSE e4

\* C10: the Apply click multiplies the base yield by the security modifier
\* only when rigPts > 0 and secPct > 0; with rigPts = 0 the effective yield
\* is the one of secPct = 0, whatever secPct is, and base 52, rig 0,
\* security 10, no skills, no implant give exactly 0.52
C10_SecurityNeedsRig ==
  effLocal.applied =>
    /\ effLocal.eff = yieldWith(adv, adv.rigPts > 0 /\ adv.secPct > 0)
    /\ adv.rigPts = 0 =>
          effLocal.eff = effectiveYield([adv EXCEPT !.secPct = 0])
    /\ (adv.basePct = 52 /\ adv.rigPts = 0 /\ adv.secPct = 10
          /\ adv.skillR = 0 /\ adv.skillRE = 0 /\ adv.skillOP = 0
          /\ adv.implantPct = 0) =>
         (effLocal.eff = [num |-> 13, den |-> 25] /\ reprocessYieldPct = 5200)

\* the example: a security modifier entered without a rig, applied
C10_Witness ==
  /\ effLocal.applied
  /\ adv = Adv(52, 0, 10, 0, 0, 0, 0, 0)
  /\ effLocal.eff = [num |-> 13, den |-> 25]

-----------------------------------------------------------------------------
(* Properties of the calculation passes (Spec)                             *)

\* this step is the synchronous head of a new onCalculate invocation
SubmitStep == started' = started + 1

\* this step is the last one of the invocation p
PassEnds(p) == p \in passes /\ \A q \in passes' : q.id # p.id

\* this step is the one in which the invocation p renders its rows
PassDone(p) == PassEnds(p) /\ status' = Status("Done.", "")

\* C1: once every invocation has finished, the result panels hold the result
\* of the most recently started invocation (or what a reset left), never
\* the result of one that started earlier and finished later
C1_LatestPassRendered ==
  (passes = {} /\ lastStart.outcome \in {"done", "empty"}) =>
    \/ renderedBy \in {0, started}
    \/ summary = lastStart.summary

\* C2: an invocation that waits for type data, names or prices does not end
\* in the error state when such a fetch fails: it ends with "Done." and rows
C2_FetchFailureTolerated ==
  [][\A p \in passes :
       (p.pc \in {"typedata", "names", "prices", "esi"} /\ PassEnds(p)) =>
         /\ status' = Status("Done.", "")
         /\ rawTable'.kind = "row"]_vars

FullCycle(f) ==
  f.durationMinutes * 60 >= f.cycleTimeSeconds

BadNumbers(f) ==
  f.yieldPerCycle <= 0 \/ f.cycleTimeSeconds <= 0 \/ f.durationMinutes < 0

NoMaterial(f) == f.materialTypeId <= 0 /\ f.materialName = <<>>

\* the message of the first check that the form f fails
InputCause(f) ==
  IF f.yieldPerCycle <= 0 THEN "Yield per cycle must be > 0."
  ELSE IF f.cycleTimeSeconds <= 0 THEN "Cycle time must be > 0."
  ELSE IF f.durationMinutes < 0 THEN "Duration must be >= 0."
  ELSE "Enter a material name or a Type ID."

\* the next name that the invocation p resolves
NextName(p) == p.names[Len(p.targets) + 1]

\* C3: an invocation that fails with invalid input, or with a material name
\* that does not resolve, ends at that failure (no later name is resolved),
\* writes nothing to the summary, the raw table, the reprocess table or the
\* comparison box, and leaves the cause of the error in the status
C3_FailureWritesNothing ==
  [][/\ (SubmitStep /\ (BadNumbers(form')
                          \/ (FullCycle(form') /\ NoMaterial(form')))) =>
          /\ UNCHANGED <<resultPanels, renderedBy>>
          /\ status' = Status(InputCause(form'), "error")
          /\ passes' = passes
     /\ \A p \in passes :
          (p.pc = "resolve" /\ p \notin passes') =>
            /\ UNCHANGED <<resultPanels, renderedBy>>
            /\ NextName(p) \notin DOMAIN NameIds =>
                  /\ PassEnds(p)
                  /\ status'.kind = "error"
                  /\ status'.msg \in {"Could not resolve the name.",
                                      "ESI /universe/ids failed: HTTP error"}
    ]_vars

\* the second of two invocations failed at the name "X", which comes before
\* a name that resolves; the result of the first is still displayed
C3_Witness ==
  /\ started = 2 /\ passes = {}
  /\ form.materialName = <<"X", "A">>
  /\ lastStart.outcome = "error"
  /\ status = Status("Could not resolve the name.", "error")
  /\ renderedBy = 1 /\ summary.kind = "result"

\* this step is a submit of valid numbers that do not fill one cycle
ShortSubmit ==
  SubmitStep /\ ~BadNumbers(form') /\ ~FullCycle(form')

\* C4 as stated: valid inputs too short for one cycle put the placeholder
\* "No full cycles to compute." in every result panel, the comparison box
\* included, with a warning status and no candidate computed
C4_EveryPanelPlaceholder ==
  [][ShortSubmit =>
       /\ summary' = Placeholder(NoCycles)
       /\ rawTable' = Placeholder(NoCycles)
       /\ reprocessTable'.kind = "message" /\ reprocessTable'.msg = NoCycles
       /\ compareBox' = Placeholder(NoCycles)
       /\ status' = Status(NoCycles, "warn")
       /\ passes' = passes]_vars

\* C4: valid inputs too short for one cycle end the invocation at once, in
\* a state that is not the error state: the summary, the raw table and the
\* reprocess table show "No full cycles to compute.", the comparison box is
\* emptied, so that no earlier result stays displayed, the status is a
\* warning and no candidate is computed
C4_NothingToCompute ==
  [][ShortSubmit =>
       /\ summary' = Placeholder(NoCycles)
       /\ rawTable' = Placeholder(NoCycles)
       /\ reprocessTable' = [kind |-> "message", msg |-> NoCycles,
                             total |-> Unknown]
       /\ compareBox' = EmptyBox
       /\ status' = Status(NoCycles, "warn")
       /\ status'.kind # "error"
       /\ passes' = passes
       /\ lastStart'.outcome = "empty"]_vars

\* a too short second invocation has replaced the result of the first
C4_Witness ==
  /\ started = 2 /\ passes = {}
  /\ ~BadNumbers(form) /\ ~FullCycle(form)
  /\ lastStart.outcome = "empty" /\ renderedBy = 2
  /\ summary = Placeholder(NoCycles) /\ compareBox = EmptyBox
  /\ status.kind = "warn"

\* floor(totalVolume / unitVolume + 1e-9), or 0 without a unit volume > 0
expectedUnits(totalVolume, unitVolume) ==
  IF unitVolume > 0 THEN FloorEps(totalVolume, unitVolume) ELSE 0

\* C6: every candidate that an invocation renders has units mined equal to
\* floor(totalVolume / unitVolume + 1e-9) when the unit volume is > 0 and
\* to 0 when it is <= 0 or missing; the units are a non-negative integer
C6_UnitsGuarded ==
  [][\A p \in passes :
       PassDone(p) =>
         /\ rawTable'.units = expectedUnits(p.totalM3, rawTable'.volume)
         /\ rawTable'.units \in Nat
         /\ compareBox'.kind = "table" =>
               \A i \in DOMAIN compareBox'.rows :
                 LET row == compareBox'.rows[i]
                 IN  /\ row.unitsMined \in Nat
                     /\ row.unitsMined =
                          expectedUnits(p.totalM3, row.typeData.volume)]_vars

\* the candidates on display, each with the breakdown of its type and its
\* reprocessing output rows
shownBreakdowns ==
  IF compareBox.kind = "table"
  THEN {[mats |-> compareBox.rows[i].typeData.typeMaterials,
         out |-> compareBox.rows[i].reprocessRows] :
          i \in DOMAIN compareBox.rows}
  ELSE IF rawTable.kind = "row" /\ reprocessTable.kind \in {"rows", "nomaterials"}
  THEN {[mats |-> world.types[rawTable.typeId].typeMaterials,
         out |-> reprocessTable.rows]}
  ELSE {}

\* C8: the output rows of a candidate are those of the valid entries of its
\* breakdown, one row each (a row of quantity 0 included); an entry whose
\* identity or quantity is not positive has no row
C8_MalformedEntriesSkipped ==
  \A c \in shownBreakdowns :
    /\ Len(c.out) = Cardinality(ValidEntries(c.mats))
    /\ \A k \in ValidEntries(c.mats) :
         \E i \in DOMAIN c.out : c.out[i].typeId = c.mats[k].material_type_id
    /\ \A i \in DOMAIN c.out :
         \E k \in ValidEntries(c.mats) :
           c.out[i].typeId = c.mats[k].material_type_id

\* C9: the output rows of a candidate are in descending order of quantity,
\* rows of equal quantity in ascending order of output identity
C9_RowsByQuantity ==
  \A c \in shownBreakdowns :
    \A i, j \in DOMAIN c.out :
      i < j => \/ c.out[i].qty > c.out[j].qty
               \/ /\ c.out[i].qty = c.out[j].qty
                  /\ c.out[i].typeId <= c.out[j].typeId

-----------------------------------------------------------------------------
(* Properties of the yield set-up followed by a calculation (SpecSetup)    *)

\* the candidates on display: type data, units mined, reprocessing rows
shownCandidates ==
  IF compareBox.kind = "table"
  THEN {[typeData |-> compareBox.rows[i].typeData,
         unitsMined |-> compareBox.rows[i].unitsMined,
         out |-> compareBox.rows[i].reprocessRows] :
          i \in DOMAIN compareBox.rows}
  ELSE IF rawTable.kind = "row" /\ reprocessTable.kind \in {"rows", "nomaterials"}
  THEN {[typeData |-> world.types[rawTable.typeId],
         unitsMined |-> rawTable.units,
         out |-> reprocessTable.rows]}
  ELSE {}

\* every output quantity of candidate c lies between 0 and portions * q:
\* the yield fraction applied to it was in [0, 1]
YieldWithinUnit(c) ==
  LET portions == FloorDiv(c.unitsMined, Max2(1, c.typeData.portionSize))
      mats == c.typeData.typeMaterials
  IN  \A k \in DOMAIN mats :
        \A i \in DOMAIN c.out :
          c.out[i].typeId = mats[k].material_type_id =>
            /\ Min2(0, portions * mats[k].quantity) <= c.out[i].qty
            /\ c.out[i].qty <= Max2(0, portions * mats[k].quantity)

\* this step is a click on Apply that changes something
ApplyStep ==
  /\ status'.msg = "Applied advanced yield."
  /\ effLocal' # effLocal \/ status' # status

\* C11: whatever is entered in the advanced panel (negative values, skill
\* levels outside 0..5), the Apply click goes through: the skill levels it
\* uses are integers in 0..5, the effective yield is a fraction in [0, 1],
\* and the yield fraction that a later calculation applies is in [0, 1]
C11_YieldAlwaysInRange ==
  /\ [](/\ \A lv \in {adv.skillR, adv.skillRE, adv.skillOP} :
            skillLevel(lv) \in 0..5
        /\ effLocal.applied =>
             /\ effLocal.eff.den > 0
             /\ 0 <= effLocal.eff.num
             /\ effLocal.eff.num <= effLocal.eff.den
        /\ \A p \in passes :
             LET yf == yieldFrac(p.reprocessYieldPct)
             IN  yf.den > 0 /\ 0 <= yf.num /\ yf.num <= yf.den
        /\ \A c \in shownCandidates : YieldWithinUnit(c))
  /\ [][ApplyStep =>
          /\ effLocal'.eff = yieldWith(adv, adv.rigPts > 0 /\ adv.secPct > 0)
          /\ reprocessYieldPct' \in 0..FullPct
          /\ status'.kind # "error"]_vars

\* skill levels 9 and -1, a negative base and implant were applied, and a
\* calculation with the resulting yield has rendered its rows
C11_Witness ==
  /\ effLocal.applied
  /\ adv.skillR > 5 /\ adv.skillRE < 0 /\ adv.basePct < 0
  /\ status = Status("Done.", "")
  /\ \E c \in shownCandidates : c.out # <<>>

-----------------------------------------------------------------------------
(* Properties of the displayed values (Spec, SpecSetup)                    *)

\* the market has no sell price for the type id
NoPrice(id) == id \notin DOMAIN world.prices \/ world.prices[id] <= 0

\* C12: where the harvested material has no price, the raw total and the
\* raw per-hour value of that candidate are shown as unknown in the summary,
\* in the raw table and in the comparison table, never as 0
C12_UnknownRawNeverZero ==
  /\ (summary.kind = "result" /\ NoPrice(summary.typeId)) =>
       (summary.rawValue # 0 /\ summary.hrRaw # ZeroRat)
  /\ (rawTable.kind = "row" /\ NoPrice(rawTable.typeId)) =>
       (rawTable.price = Unknown /\ rawTable.total = Unknown)
  /\ compareBox.kind = "table" =>
       \A i \in DOMAIN compareBox.shown :
         NoPrice(compareBox.shown[i].typeId) =>
           /\ compareBox.shown[i].rawTotal = Unknown
           /\ compareBox.shown[i].rawPerHour = Unknown

\* the sum of quantity * price over the rows with a known price, in
\* hundredths of an ISK
RECURSIVE GrossOf(_)
GrossOf(rows) ==
  IF rows = <<>> THEN 0
  ELSE (IF rows[1].sellMin.known THEN rows[1].qty * rows[1].sellMin.val * 100
        ELSE 0) + GrossOf(Tail(rows))

\* every output row is listed with its value, unknown where the output has
\* no price
RowsListed(rows) ==
  \A i \in DOMAIN rows :
    /\ rows[i].sellMin.known <=> ~NoPrice(rows[i].typeId)
    /\ rows[i].totalValue =
         IF rows[i].sellMin.known
         THEN Known(rows[i].qty * rows[i].sellMin.val * 100) ELSE Unknown

\* C13: for every candidate the reprocessed gross total is the sum of
\* quantity * price over the output rows with a known price (rows without
\* a price stay listed, with an unknown value), the fee is gross * taxPct /
\* 100 and the net total is gross minus the fee
C13_GrossFeeNet ==
  /\ compareBox.kind = "table" =>
       \A i \in DOMAIN compareBox.rows :
         LET r == compareBox.rows[i]
         IN  /\ Len(r.reprocessRows) = Len(r.typeData.typeMaterials)
             /\ RowsListed(r.reprocessRows)
             /\ r.reprocessTotal = GrossOf(r.reprocessRows)
             /\ r.taxFee * 100 = r.reprocessTotal * compareBox.taxPct
             /\ r.reprocessNet = r.reprocessTotal - r.taxFee
  /\ (compareBox.kind = "compare" /\ reprocessTable.kind = "rows") =>
       /\ RowsListed(reprocessTable.rows)
       /\ reprocessTable.total * 100 =
            GrossOf(reprocessTable.rows) * (100 - compareBox.taxPct)

\* a comparison under a 10% fee with a candidate one of whose outputs has
\* no price
C13_Witness ==
  /\ compareBox.kind = "table" /\ compareBox.taxPct = 10
  /\ \E i \in DOMAIN compareBox.rows :
       LET r == compareBox.rows[i]
       IN  /\ r.taxFee > 0
           /\ \E k \in DOMAIN r.reprocessRows :
                r.reprocessRows[k].totalValue = Unknown
           /\ \E k \in DOMAIN r.reprocessRows :
                r.reprocessRows[k].totalValue.known

-----------------------------------------------------------------------------
(* Properties of the comparison table (SpecPage)                           *)

\* the place in the pass's rows of the i-th row on display
InputIndex(i) ==
  CHOOSE k \in DOMAIN compareBox.rows :
    compareBox.rows[k].typeId = compareBox.shown[i].typeId

\* the value a row is ordered by: the field named by the key as a fraction,
\* 0 where the row has no such field or the field is unknown
OrderValue(row, key) ==
  IF key = "unitsMined" THEN [num |-> row.unitsMined, den |-> 1]
  ELSE IF key = "rawPerHour"
    THEN (IF row.rawPerHour.known THEN row.rawPerHour.val ELSE ZeroRat)
  ELSE IF key = "reprocessPerHour"
    THEN (IF row.reprocessPerHour.known THEN row.reprocessPerHour.val
          ELSE ZeroRat)
  ELSE IF key = "rawTotal"
    THEN [num |-> IF row.rawTotal.known THEN row.rawTotal.val ELSE 0,
          den |-> 1]
  ELSE IF key = "reprocessNet" THEN [num |-> row.reprocessNet, den |-> 1]
  ELSE ZeroRat

afterActiveClicks(n) ==
  LET once == headerClickState(compareState, compareState.key)
      twice == headerClickState(once, once.key)
  IN  renderComparison(compareBox.rows, compareBox.usedSeconds,
                       compareBox.taxPct, IF n = 1 THEN once ELSE twice)

\* C15: whatever the sort state, two clicks on the active column header
\* show the rows in exactly the order shown before the two clicks, rows of
\* equal key value included
C15_TwoReversalsRestoreOrder ==
  compareBox.kind = "table" =>
    /\ afterActiveClicks(2).shown = compareBox.shown
    /\ afterActiveClicks(2).key = compareBox.key
    /\ afterActiveClicks(2).dir = compareBox.dir

\* an ascending table of two rows that one click on the active header
\* would list the other way round
C15_Witness ==
  /\ compareBox.kind = "table" /\ Len(compareBox.shown) = 2
  /\ compareBox.dir = "asc"
  /\ afterActiveClicks(1).shown[1].typeId = compareBox.shown[2].typeId
  /\ afterActiveClicks(1).shown[2].typeId = compareBox.shown[1].typeId

\* row a's reprocessed ISK per hour minus row b's, as a sign; unknown is 0
PerHourDiff(a, b) ==
  LET x == IF a.reprocessPerHour.known THEN a.reprocessPerHour.val ELSE ZeroRat
      y == IF b.reprocessPerHour.known THEN b.reprocessPerHour.val ELSE ZeroRat
  IN  x.num * y.den - y.num * x.den

\* the first row, in input order, of maximum reprocessed ISK per hour
FirstMax(rows) ==
  CHOOSE k \in DOMAIN rows :
    /\ \A m \in DOMAIN rows : PerHourDiff(rows[k], rows[m]) >= 0
    /\ \A m \in 1..(k - 1) : PerHourDiff(rows[k], rows[m]) > 0

\* C16: the step in which a calculation pass over several candidates
\* renders its result selects the row of maximum reprocessed ISK per hour,
\* the first such row in input order, whatever sort key, direction and
\* selection the comparison state held before; key and direction are kept
C16_DefaultSelectionIsBest ==
  [][\A p \in passes :
       (PassDone(p) /\ compareBox'.kind = "table") =>
         LET rows == compareBox'.rows
             pick == rows[FirstMax(rows)]
         IN  /\ Len(rows) > 1
             /\ compareState'.selectedTypeId = Known(pick.typeId)
             /\ compareState'.key = compareState.key
             /\ compareState'.dir = compareState.dir
             /\ \A i \in DOMAIN compareBox'.shown :
                  compareBox'.shown[i].selected
                    <=> compareBox'.shown[i].typeId = pick.typeId]_vars

\* a second pass has rendered two candidates of equal reprocessed ISK per
\* hour under a sort state other than the default one: the first of the
\* input is selected
C16_Witness ==
  /\ compareBox.kind = "table" /\ Len(compareBox.rows) = 2
  /\ renderedBy = 2 /\ status = Status("Done.", "")
  /\ compareState.key # "reprocessPerHour"
  /\ PerHourDiff(compareBox.rows[1], compareBox.rows[2]) = 0
  /\ compareState.selectedTypeId = Known(compareBox.rows[1].typeId)

\* the rows of the comparison table that carry the row-selected mark
Highlighted ==
  {compareBox.shown[i].typeId :
     i \in {k \in DOMAIN compareBox.shown : compareBox.shown[k].selected}}

\* the candidate of the pass's rows whose type id is id
CandidateOf(id) ==
  compareBox.rows[CHOOSE k \in DOMAIN compareBox.rows :
                    compareBox.rows[k].typeId = id]

\* this step changes the sort key or direction of a table on display
HeaderStep ==
  /\ compareBox.kind = "table" /\ compareBox'.kind = "table"
  /\ compareState'.key # compareState.key
       \/ compareState'.dir # compareState.dir

\* C17: while the comparison table is on display exactly one candidate is
\* highlighted, it is the selected one, and the raw table and the
\* reprocessing table show that candidate's detail; a header click changes
\* the sort key or direction and the order of the rows only, not the
\* selection, the highlighted candidate or the detail
C17_HighlightedIsDetailed ==
  /\ [](compareBox.kind = "table" =>
          /\ compareState.selectedTypeId.known
          /\ Highlighted = {compareState.selectedTypeId.val}
          /\ \E k \in DOMAIN compareBox.rows :
               compareBox.rows[k].typeId = compareState.selectedTypeId.val
          /\ rawTable.kind = "row"
          /\ rawTable.typeId = compareState.selectedTypeId.val
          /\ rawTable = renderRawSelected(
                          CandidateOf(compareState.selectedTypeId.val))
          /\ reprocessTable =
               renderReprocessTable(
                 CandidateOf(compareState.selectedTypeId.val).reprocessRows,
                 CandidateOf(compareState.selectedTypeId.val).reprocessNet))
  /\ [][HeaderStep =>
         /\ compareState'.selectedTypeId = compareState.selectedTypeId
         /\ Highlighted' = Highlighted
         /\ compareBox'.rows = compareBox.rows
         /\ UNCHANGED <<rawTable, reprocessTable, summary, status>>]_vars

\* after a row click and a header click: the candidate highlighted and
\* detailed is not the one the pass selected, and the table is ascending
C17_Witness ==
  /\ compareBox.kind = "table" /\ Len(compareBox.rows) = 2
  /\ compareState.dir = "asc"
  /\ compareState.selectedTypeId # Known(bestRow(compareBox.rows).typeId)
  /\ rawTable.kind = "row"
  /\ Highlighted = {rawTable.typeId}
  /\ reprocessTable.rows # <<>>

\* C18: the summary panel describes the candidate whose detail the raw
\* table and the reprocessing table show: the same material, the same
\* units mined, the same raw and reprocessed values
C18_SummaryMatchesTables ==
  (summary.kind = "result" /\ rawTable.kind = "row"
     /\ reprocessTable.kind \in {"rows", "nomaterials"}) =>
    /\ summary.typeId = rawTable.typeId
    /\ summary.units = rawTable.units
    /\ rawTable.total.known => summary.rawValue = rawTable.total.val
    /\ summary.reprocessValue = reprocessTable.total

-----------------------------------------------------------------------------
(* Properties of fetchJson (SpecCache)                                     *)

\* this step is the synchronous head of a new fetchJson call
CallStep == fetchCalls' = fetchCalls + 1

\* this step is the one in which the waiting call c ends
CallEnds(c) == c \in fetches /\ c \notin fetches' /\ returned'.id = c.id

\* C19: a fetchJson call with ttlMs > 0 either returns at once, without a
\* network request, the data of a record for its url, in memCache or in
\* localStorage, whose time is less than ttlMs before the call's start
\* time, or it waits for the network; when the network answers, the call
\* returns the fetched data and that data, with the call's start time, is
\* the record for the url, and when the request fails no record is stored
C19_CacheServesFreshOnly ==
  [][/\ CallStep =>
          \/ /\ returned'.id = fetchCalls' /\ returned'.now = now
             /\ returned'.ttlMs > 0
             /\ returned'.via \in {"memCache", "localStorage"}
             /\ fetches' = fetches
             /\ localStorage' = localStorage
             /\ \E rec \in {memCache[returned'.url],
                             localStorage[returned'.url]} :
                  /\ rec.has
                  /\ returned'.now - rec.time < returned'.ttlMs
                  /\ returned'.data = rec.data
          \/ /\ returned' = returned
             /\ \E c \in fetches' \ fetches :
                  /\ c.id = fetchCalls' /\ c.now = now /\ c.ttlMs > 0
                  /\ fetches' = fetches \cup {c}
             /\ memCache' = memCache /\ localStorage' = localStorage
     /\ \A c \in fetches :
          CallEnds(c) =>
            \/ /\ returned'.via = "network"
               /\ returned'.data = now + 1
               /\ memCache'[c.url] = Record(c.now, returned'.data)
               /\ localStorage'[c.url] \in {memCache'[c.url],
                                            localStorage[c.url]}
               /\ \A u \in Urls \ {c.url} :
                    /\ memCache'[u] = memCache[u]
                    /\ localStorage'[u] = localStorage[u]
            \/ /\ returned'.via = "error"
               /\ memCache' = memCache /\ localStorage' = localStorage]_vars

\* the prices were fetched, a later call was served from a cache, and a
\* third call, started when the record was exactly ttlMs old, is waiting
\* for the network
C19_Witness ==
  \E c \in fetches :
    /\ c.url = "prices"
    /\ memCache[c.url].has /\ localStorage[c.url] = memCache[c.url]
    /\ c.now - memCache[c.url].time = c.ttlMs
    /\ returned.url = c.url /\ returned.id < c.id
    /\ returned.via \in {"memCache", "localStorage"}

=============================================================================
